---------------------------- MODULE Spec2Model ----------------------------
(***************************************************************************)
(* Battery monitor FCNET: the ESP32 publisher (change gate), the MQTT      *)
(* service of the backend (last state) and the Telegram service            *)
(* (subscribers, low-battery alert with hysteresis).                       *)
(*                                                                         *)
(* Numbers are fixed point, exact for the values used:                     *)
(*   voltage at the sensor   millivolts            (24.5 V  = 24500)       *)
(*   current                 centiamperes          (2.5 A   = 250)         *)
(*   SOC inside the ESP32    1/57 of a point       (100 %   = 5700), since *)
(*                           SOC = 100*(V - 20.8)/5.7 = (mV - 20800)/57    *)
(*   SOC on the wire         tenths of a point     (String(SOC, 1))        *)
(*   voltage on the wire     centivolts            (String(V, 2))          *)
(*   hours on the wire       tenths of an hour     (String(t, 1))          *)
(***************************************************************************)
EXTENDS Integers, Sequences, FiniteSets, Bags, TLC

(***************************************************************************)
(* Bounds of the model.                                                    *)
(***************************************************************************)
NumChats == 11
NumChatsAlerta == 2
MaxMensajes == 5
MaxCola == 1
MaxClientes == 2

(***************************************************************************)
(* Program constants.                                                      *)
(***************************************************************************)
maxSuscriptores == 10
bateriaBaja == 20
recuperacion == 25
SOC_DECIMALES == 1
V_MAX_FULL == 26500
V_MIN_EMPTY == 20800
CAP_AH == 100
UMBRAL_V == 100
UMBRAL_I == 20
SIN_BASE == -1

\* one SOC point in wire units: the device sends the SOC with one decimal
UnidadSOC == 10 ^ SOC_DECIMALES
\* one SOC point in the units of the ESP32 model, (V_MAX_FULL - V_MIN_EMPTY)/100
PuntoSOC == (V_MAX_FULL - V_MIN_EMPTY) \div 100

Chats == 1..NumChats
ChatsAlerta == 1..NumChatsAlerta

VARIABLES
  suscriptores,        \* ServicioTelegram.suscriptores : Set<string>
  alertaBajaEnviada,   \* ServicioTelegram.alertaBajaEnviada
  salida,              \* bag of the bot.sendMessage calls of the last handler
  ultimoEstado,        \* ServicioMQTT.ultimoEstado
  mensajesRecibidos,   \* ServicioMQTT.mensajesRecibidos
  lastSOC, lastV, lastI,  \* ESP32: last published reading
  cola,                \* messages published and not yet delivered
  ultimaLlamada,       \* observer: last agregarSuscriptor / eliminarSuscriptor call
  silenciados,         \* observer: observed chats whose last subscription command was /silencio
  evento,              \* observer: the last reading seen by the alert handler
  guionPos,            \* observer: progress of the readings along Guion
  numDisparos,         \* observer: alert firings so far
  numReseteos,         \* observer: flag resets (true -> false) so far
  disparosEpisodio,    \* observer: firings since the last reading >= recuperacion
  iter,                \* observer: the last iteration of the ESP32 loop
  batteryData,         \* dashboard: MonitorBateriaComponente.batteryData (<<>> is null)
  config,              \* ESP32: the V_MIN_EMPTY and V_MAX_FULL the firmware was built with
  calc,                \* observer: the last SOC computed under config
  recibido,            \* observer: the last payload handed to procesarMensaje
  consulta,            \* observer: the last answer to a query of the last state
  clientes,            \* the MQTT clients created by conectar(), oldest first
  conectado,           \* ServicioMQTT.conectado
  fase,                \* how far iniciarServicios has got
  alcanzable,          \* whether the broker can be reached from the backend
  simulatedVoltage,    \* ESP32: simulated voltage, in millivolts
  simulatedCurrent,    \* ESP32: simulated current, in centiamperes
  simulationCharging,  \* ESP32: the phase of the simulation
  pc,                  \* ESP32: where loop() is
  attemptsWifi,        \* ESP32: attempts of setup_wifi()
  attemptsMQTT,        \* ESP32: attempts of reconnectMQTT()
  wifiStatus,          \* ESP32: WiFi.status() == WL_CONNECTED
  mqttConnected,       \* ESP32: mqttClient.connected()
  peticion,            \* dashboard: the fetch of obtenerEstadoInicial()
  respuesta,           \* dashboard: what the fetch resolves to
  temporizador,        \* dashboard: setTimeout(() => this.connect(), 1000) is pending
  client,              \* dashboard: MqttServicio.client
  isConnected,         \* dashboard: isConnectedSubject
  connectionStatus,    \* dashboard: connectionStatusSubject
  lastUpdate           \* dashboard: lastUpdateSubject, <<where the time is from, the time>>

varsTelegram == <<suscriptores, alertaBajaEnviada, salida>>
varsMQTT == <<ultimoEstado, mensajesRecibidos>>
varsESP == <<lastSOC, lastV, lastI>>
varsObsSus == <<ultimaLlamada, silenciados>>
varsObsAlerta == <<evento, guionPos, numDisparos, numReseteos, disparosEpisodio>>
varsConfig == <<config, calc>>
varsCiclo == <<clientes, conectado, fase, alcanzable>>
varsSim == <<simulatedVoltage, simulatedCurrent, simulationCharging>>
varsEnlace == <<pc, attemptsWifi, attemptsMQTT, wifiStatus, mqttConnected>>
varsServicio == <<peticion, respuesta, temporizador, client, isConnected,
                  connectionStatus, lastUpdate>>
varsOtros == <<varsSim, varsEnlace, varsServicio>>
varsNoServicio == <<varsTelegram, varsMQTT, varsESP, cola, varsObsSus, varsObsAlerta, iter,
                    varsConfig, recibido, consulta, varsCiclo, varsSim, varsEnlace>>
varsResto == <<varsConfig, recibido, consulta, varsCiclo, varsOtros>>
vars == <<varsTelegram, varsMQTT, varsESP, cola, varsObsSus, varsObsAlerta, iter,
          batteryData, varsResto>>

(***************************************************************************)
(* Helpers.                                                                *)
(***************************************************************************)
Abs(x) == IF x < 0 THEN -x ELSE x

\* num/den rounded to the nearest integer, halves away from zero (den > 0)
Redondear(num, den) ==
  IF num >= 0 THEN (2 * num + den) \div (2 * den)
  ELSE -((2 * (-num) + den) \div (2 * den))

\* msg.chat.id.toString(): the key under which a chat is kept in the Set
toString(id) == [str |-> id]


(***************************************************************************)
(* ServicioTelegram: subscribers.                                          *)
(***************************************************************************)
\* mutant: the limit is tested with > instead of >=
agregarLimiteMayor(S, chatId) ==
  IF Cardinality(S) > maxSuscriptores
    THEN [retorno |-> FALSE, suscriptores |-> S]
    ELSE IF chatId \notin S
      THEN [retorno |-> TRUE, suscriptores |-> S \cup {chatId}]
      ELSE [retorno |-> FALSE, suscriptores |-> S]

\* mutant: a full set makes room by dropping a member
agregarDesalojando(S, chatId) ==
  IF chatId \in S THEN [retorno |-> FALSE, suscriptores |-> S]
  ELSE IF Cardinality(S) >= maxSuscriptores
    THEN [retorno |-> TRUE,
          suscriptores |-> (S \ {CHOOSE x \in S : TRUE}) \cup {chatId}]
    ELSE [retorno |-> TRUE, suscriptores |-> S \cup {chatId}]

\* mutant: the set is taken to be full one member early
agregarLimiteAnticipado(S, chatId) ==
  IF Cardinality(S) >= maxSuscriptores - 1
    THEN [retorno |-> FALSE, suscriptores |-> S]
    ELSE IF chatId \notin S
      THEN [retorno |-> TRUE, suscriptores |-> S \cup {chatId}]
      ELSE [retorno |-> FALSE, suscriptores |-> S]

\* agregarSuscriptor(chatId): the value returned and the set afterwards
agregarSuscriptor(S, chatId) ==
  IF Cardinality(S) >= maxSuscriptores
    THEN [retorno |-> FALSE, suscriptores |-> S]
    ELSE IF chatId \notin S
      THEN [retorno |-> TRUE, suscriptores |-> S \cup {chatId}]
      ELSE [retorno |-> FALSE, suscriptores |-> S]

\* mutant: the key is looked up without toString() and is never found
eliminarSinConvertir(S, chatId) == [retorno |-> FALSE, suscriptores |-> S]

\* mutant: the result of the removal is reported without the membership test
eliminarSiempreTrue(S, chatId) == [retorno |-> TRUE, suscriptores |-> S \ {chatId}]

\* eliminarSuscriptor(chatId): the value returned and the set afterwards
eliminarSuscriptor(S, chatId) ==
  IF chatId \in S
    THEN [retorno |-> TRUE, suscriptores |-> S \ {chatId}]
    ELSE [retorno |-> FALSE, suscriptores |-> S]

\* one bot.sendMessage(chatId, texto) call
Envio(chatId, texto) == SetToBag({[chat |-> chatId, texto |-> texto]})

\* what the observer keeps of a call of agregarSuscriptor / eliminarSuscriptor
Llamada(op, chatId, r) ==
  [op |-> op, chatId |-> chatId, antes |-> suscriptores, retorno |-> r.retorno,
   alertaAntes |-> alertaBajaEnviada]

\* bot.onText(/\/start/): subscribe, answer with the menu
ComandoStart(chat) ==
  LET chatId == toString(chat)
      r == agregarSuscriptor(suscriptores, chatId)
  IN /\ suscriptores' = r.suscriptores
     /\ salida' = Envio(chatId, "menu: Alertas automaticas activas")
     /\ ultimaLlamada' = Llamada("agregar", chatId, r)
     /\ silenciados' = silenciados \ {chat}
     /\ UNCHANGED <<alertaBajaEnviada, varsMQTT, varsESP, cola, varsObsAlerta, iter,
                    batteryData, varsResto>>

\* bot.onText(/\/alertas/): subscribe, answer 'Alertas activadas'
ComandoAlertas(chat) ==
  LET chatId == toString(chat)
      r == agregarSuscriptor(suscriptores, chatId)
  IN /\ suscriptores' = r.suscriptores
     /\ salida' = Envio(chatId, "Alertas activadas")
     /\ ultimaLlamada' = Llamada("agregar", chatId, r)
     /\ silenciados' = silenciados \ {chat}
     /\ UNCHANGED <<alertaBajaEnviada, varsMQTT, varsESP, cola, varsObsAlerta, iter,
                    batteryData, varsResto>>

\* mutant: /silencio also clears the flag of the alert
ComandoSilencioReinicia(chat) ==
  LET chatId == toString(chat)
      r == eliminarSuscriptor(suscriptores, chatId)
  IN /\ suscriptores' = r.suscriptores
     /\ salida' = Envio(chatId, "Alertas desactivadas")
     /\ ultimaLlamada' = Llamada("eliminar", chatId, r)
     /\ silenciados' = (silenciados \cup {chat}) \cap ChatsAlerta
     /\ alertaBajaEnviada' = FALSE
     /\ UNCHANGED <<varsMQTT, varsESP, cola, varsObsAlerta, iter, batteryData, varsResto>>

\* bot.onText(/\/silencio/): unsubscribe, answer 'Alertas desactivadas'
ComandoSilencio(chat) ==
  LET chatId == toString(chat)
      r == eliminarSuscriptor(suscriptores, chatId)
  IN /\ suscriptores' = r.suscriptores
     /\ salida' = Envio(chatId, "Alertas desactivadas")
     /\ ultimaLlamada' = Llamada("eliminar", chatId, r)
     /\ silenciados' = (silenciados \cup {chat}) \cap ChatsAlerta
     /\ UNCHANGED <<alertaBajaEnviada, varsMQTT, varsESP, cola, varsObsAlerta, iter,
                    batteryData, varsResto>>

(***************************************************************************)
(* ServicioTelegram: the low-battery alert.                                *)
(***************************************************************************)
\* mutant: <= instead of <
condAlertaInclusiva(soc, enviada) == soc <= bateriaBaja * UnidadSOC /\ ~enviada

\* the condition of the alert: soc < bateriaBaja && !alertaBajaEnviada
condAlerta(soc, enviada) == soc < bateriaBaja * UnidadSOC /\ ~enviada

\* mutant: > instead of >=
condRecuperacionEstricta(soc) == soc > recuperacion * UnidadSOC

\* the condition of the reset: soc >= recuperacion
condRecuperacion(soc) == soc >= recuperacion * UnidadSOC

\* mutant: the flag is reset as soon as the SOC is back at bateriaBaja
alertaSinBanda(soc, enviada) ==
  LET trasAlerta == IF condAlerta(soc, enviada) THEN TRUE ELSE enviada
  IN IF soc >= bateriaBaja * UnidadSOC THEN FALSE ELSE trasAlerta

\* mutant: the flag is not set when the alert is sent
alertaSinMarcar(soc, enviada) ==
  IF condRecuperacion(soc) THEN FALSE ELSE enviada

\* alertaBajaEnviada after the handler has seen soc
alertaTrasLectura(soc, enviada) ==
  LET trasAlerta == IF condAlerta(soc, enviada) THEN TRUE ELSE enviada
  IN IF condRecuperacion(soc) THEN FALSE ELSE trasAlerta

\* suscriptores.forEach(chatId => bot.sendMessage(chatId, mensaje))
RECURSIVE forEachEnviar(_, _)
forEachEnviar(S, texto) ==
  IF S = {} THEN EmptyBag
  ELSE LET chatId == CHOOSE x \in S : TRUE
       IN Envio(chatId, texto) (+) forEachEnviar(S \ {chatId}, texto)

\* enviarAlertaBateriaBaja(datos): the sendMessage calls it makes
enviarAlertaBateriaBaja(S, datos) ==
  IF Cardinality(S) = 0 THEN EmptyBag
  ELSE forEachEnviar(S, "BATERIA BAJA")

\* mutant: the recovery is announced to the subscribers
enviosConRecuperada(S, datos, enviada) ==
  IF condAlerta(datos.soc, enviada) THEN enviarAlertaBateriaBaja(S, datos)
  ELSE IF condRecuperacion(datos.soc) /\ enviada
    THEN forEachEnviar(S, "BATERIA RECUPERADA")
    ELSE EmptyBag

\* the sendMessage calls the handler makes for a reading: only inside the
\* branch of the alert
enviosDeLectura(S, datos, enviada) ==
  IF condAlerta(datos.soc, enviada) THEN enviarAlertaBateriaBaja(S, datos)
  ELSE EmptyBag

\* the readings of the hysteresis scenario, in SOC points
Guion == <<25, 19, 21, 19, 26>>

\* observer: how far the readings seen so far follow Guion (Len + 1: they left it)
guionTras(pos, soc) ==
  IF pos < Len(Guion) /\ soc = Guion[pos + 1] * UnidadSOC THEN pos + 1
  ELSE Len(Guion) + 1

\* servicioMQTT.on('nuevosDatos', datos => ...), registered by configurarAlertas
alNuevosDatos(datos) ==
  LET soc == datos.soc
      dispara == condAlerta(soc, alertaBajaEnviada)
      despues == alertaTrasLectura(soc, alertaBajaEnviada)
      resetea == alertaBajaEnviada /\ ~despues
  IN /\ salida' = enviosDeLectura(suscriptores, datos, alertaBajaEnviada)
     /\ alertaBajaEnviada' = despues
     /\ UNCHANGED suscriptores
     /\ evento' = [soc |-> soc, antes |-> alertaBajaEnviada, invocada |-> dispara,
                   reseteo |-> resetea, n |-> evento.n + 1]
     /\ numDisparos' = numDisparos + (IF dispara THEN 1 ELSE 0)
     /\ numReseteos' = numReseteos + (IF resetea THEN 1 ELSE 0)
     /\ guionPos' = guionTras(guionPos, soc)
     /\ disparosEpisodio' = IF soc >= recuperacion * UnidadSOC THEN 0
                            ELSE disparosEpisodio + (IF dispara THEN 1 ELSE 0)

(***************************************************************************)
(* ServicioMQTT: the last state.                                           *)
(***************************************************************************)
\* mutant: the deadband is open, -0.1 A counts as charging
determinarEstadoInclusivo(corriente) ==
  IF corriente <= -10 THEN "Cargando"
  ELSE IF corriente > 10 THEN "Descargando"
  ELSE "Reposo"

\* determinarEstado(corriente), the current in centiamperes
determinarEstado(corriente) ==
  IF corriente < -10 THEN "Cargando"
  ELSE IF corriente > 10 THEN "Descargando"
  ELSE "Reposo"

\* ultimoEstado as the constructor leaves it (timestamp 0 stands for null)
EstadoInicial ==
  [voltage |-> 0, current |-> 0, soc |-> 0, time_to_full |-> 0, time_to_empty |-> 0,
   timestamp |-> 0, estado |-> "Desconocido"]

\* mutant: every payload parses, a malformed one to an empty object
JSONvalidoSiempre(mensaje) == TRUE

\* whether JSON.parse(mensaje.toString()) returns: a payload is the record of
\* the fields of its JSON object, a text that is not JSON the record with the
\* one field roto
JSONvalido(mensaje) == "roto" \notin DOMAIN mensaje

\* mutant: a negative number counts as missing
campoNoNegativo(datos, nombre) ==
  IF nombre \in DOMAIN datos /\ datos[nombre] > 0 THEN datos[nombre] ELSE 0

\* datos.nombre || 0: a missing field reads as undefined and gives 0, a number
\* other than 0 gives itself
campo(datos, nombre) == IF nombre \in DOMAIN datos THEN datos[nombre] ELSE 0

\* mutant: the fields are written into the existing object, the mode is left
\* for later
nuevoEstadoParcial(datos, marca) ==
  [ultimoEstado EXCEPT !.voltage = campo(datos, "voltage"),
                       !.current = campo(datos, "current"),
                       !.soc = campo(datos, "soc"),
                       !.time_to_full = campo(datos, "time_to_full"),
                       !.time_to_empty = campo(datos, "time_to_empty"),
                       !.timestamp = marca]

\* the object literal assigned to this.ultimoEstado; determinarEstado(undefined)
\* fails both comparisons and gives 'Reposo', as determinarEstado(0) does; the
\* timestamp is the ordinal of the message
nuevoEstado(datos, marca) ==
  [voltage |-> campo(datos, "voltage"), current |-> campo(datos, "current"),
   soc |-> campo(datos, "soc"), time_to_full |-> campo(datos, "time_to_full"),
   time_to_empty |-> campo(datos, "time_to_empty"), timestamp |-> marca,
   estado |-> determinarEstado(campo(datos, "current"))]

\* whether configurarAlertas has registered the listener of nuevosDatos:
\* servicioTelegram.iniciar() runs after the wait of iniciarServicios
hayOyente == fase = "operativo"

\* procesarMensaje(topic, mensaje): parse, count, replace ultimoEstado, emit
\* nuevosDatos to the listeners there are; a payload that does not parse is
\* logged in the catch
procesarMensaje(mensaje) ==
  /\ recibido' = [mensaje |-> mensaje, n |-> IF recibido.n = 1 THEN 2 ELSE 1,
                  huboRoto |-> recibido.huboRoto \/ ~JSONvalido(mensaje)]
  /\ IF JSONvalido(mensaje)
       THEN LET nuevo == nuevoEstado(mensaje, mensajesRecibidos + 1)
            IN /\ mensajesRecibidos' = mensajesRecibidos + 1
               /\ ultimoEstado' = nuevo
               /\ IF hayOyente THEN alNuevosDatos(nuevo)
                  ELSE /\ salida' = EmptyBag
                       /\ UNCHANGED <<suscriptores, alertaBajaEnviada, varsObsAlerta>>
       ELSE /\ salida' = EmptyBag
            /\ UNCHANGED <<varsMQTT, suscriptores, alertaBajaEnviada, varsObsAlerta>>
  /\ UNCHANGED <<varsObsSus, batteryData, varsConfig, consulta, varsCiclo,
                 varsOtros>>

\* obtenerUltimoEstado(): the reference to ultimoEstado
obtenerUltimoEstado == ultimoEstado

\* estaConectado()
estaConectado == conectado

\* GET /api/estado: the last state with the two fields of the service
GetEstado ==
  /\ fase = "operativo"
  /\ consulta' = [origen |-> "api", estado |-> obtenerUltimoEstado,
                  mqtt_conectado |-> estaConectado,
                  mensajes_recibidos |-> mensajesRecibidos,
                  n |-> IF consulta.n = 1 THEN 2 ELSE 1]
  /\ UNCHANGED <<varsTelegram, varsMQTT, varsESP, cola, varsObsSus, varsObsAlerta, iter,
                 batteryData, varsConfig, recibido, varsCiclo,
                 varsOtros>>

\* bot.onText(/\/estado/) and enviarEstadoActual(chatId): without a timestamp
\* 'No hay datos disponibles', otherwise the text made of the fields read
ComandoEstado(chat) ==
  LET datos == obtenerUltimoEstado
  IN /\ fase = "operativo"
     /\ salida' = Envio(toString(chat),
                        IF datos.timestamp = 0 THEN "No hay datos disponibles"
                        ELSE "Estado Actual")
     /\ consulta' = [origen |-> "bot", estado |-> datos, mqtt_conectado |-> FALSE,
                     mensajes_recibidos |-> 0,
                     n |-> IF consulta.n = 1 THEN 2 ELSE 1]
     /\ UNCHANGED <<suscriptores, alertaBajaEnviada, varsMQTT, varsESP, cola, varsObsSus,
                    varsObsAlerta, iter, batteryData, varsConfig, recibido, varsCiclo,
                 varsOtros>>

\* conectar(): this.cliente = mqtt.connect(...); the client it replaces is
\* not ended and keeps its handlers
conectar == clientes' = Append(clientes, "conectando")

\* iniciarServicios() up to the wait of 2 seconds
iniciarServicios ==
  /\ fase = "construido"
  /\ conectar
  /\ fase' = "esperando"
  /\ UNCHANGED <<varsTelegram, varsMQTT, varsESP, cola, varsObsSus, varsObsAlerta, iter,
                 batteryData, varsConfig, recibido, consulta, conectado, alcanzable,
                 varsOtros>>

\* iniciarServicios() after the wait: servicioTelegram.iniciar(), app.listen,
\* setInterval
finEspera ==
  /\ fase = "esperando"
  /\ fase' = "operativo"
  /\ UNCHANGED <<varsTelegram, varsMQTT, varsESP, cola, varsObsSus, varsObsAlerta, iter,
                 batteryData, varsConfig, recibido, consulta, clientes, conectado,
                 alcanzable,
                 varsOtros>>

\* cliente.on('connect') of client i: conectado = true, subscribe. Every
\* client connects with the one clientId of config.mqtt.opciones, and the
\* broker closes the connection it has for a clientId when another one is
\* opened with it
alConnect(i) ==
  /\ alcanzable
  /\ clientes[i] \in {"conectando", "reconectando"}
  /\ clientes' = [j \in DOMAIN clientes |->
                    IF j = i THEN "conectado"
                    ELSE IF clientes[j] = "conectado" THEN "expulsado"
                    ELSE clientes[j]]
  /\ conectado' = TRUE
  /\ UNCHANGED <<varsTelegram, varsMQTT, varsESP, cola, varsObsSus, varsObsAlerta, iter,
                 batteryData, varsConfig, recibido, consulta, fase, alcanzable,
                 varsOtros>>

\* cliente.on('close') of client i, whose connection the broker has closed or
\* whose connection or attempt has failed: conectado = false; with
\* reconnectPeriod 5000 the client tries again by itself
alClose(i) ==
  /\ \/ clientes[i] = "expulsado"
     \/ ~alcanzable /\ clientes[i] \in {"conectando", "conectado"}
  /\ clientes' = [clientes EXCEPT ![i] = "reconectando"]
  /\ conectado' = FALSE
  /\ UNCHANGED <<varsTelegram, varsMQTT, varsESP, cola, varsObsSus, varsObsAlerta, iter,
                 batteryData, varsConfig, recibido, consulta, fase, alcanzable,
                 varsOtros>>

\* cliente.on('error') of client i, whose attempt to connect has failed:
\* conectado = false
alError(i) ==
  /\ ~alcanzable
  /\ clientes[i] \in {"conectando", "reconectando"}
  /\ conectado' = FALSE
  /\ UNCHANGED <<varsTelegram, varsMQTT, varsESP, cola, varsObsSus, varsObsAlerta, iter,
                 batteryData, varsConfig, recibido, consulta, clientes, fase, alcanzable,
                 varsOtros>>

\* the broker or the network between it and the backend goes down
caeBroker ==
  /\ alcanzable
  /\ alcanzable' = FALSE
  /\ UNCHANGED <<varsTelegram, varsMQTT, varsESP, cola, varsObsSus, varsObsAlerta, iter,
                 batteryData, varsConfig, recibido, consulta, clientes, conectado, fase,
                 varsOtros>>

\* the broker can be reached again
vuelveBroker ==
  /\ ~alcanzable
  /\ alcanzable' = TRUE
  /\ UNCHANGED <<varsTelegram, varsMQTT, varsESP, cola, varsObsSus, varsObsAlerta, iter,
                 batteryData, varsConfig, recibido, consulta, clientes, conectado, fase,
                 varsOtros>>

\* the callback of setInterval, every 5 minutes
mantenimiento ==
  /\ fase = "operativo"
  /\ ~estaConectado
  /\ Len(clientes) < MaxClientes
  /\ conectar
  /\ UNCHANGED <<varsTelegram, varsMQTT, varsESP, cola, varsObsSus, varsObsAlerta, iter,
                 batteryData, varsConfig, recibido, consulta, conectado, fase,
                 alcanzable,
                 varsOtros>>

\* whether some client is connected and subscribed to the topic
haySuscrito == \E i \in DOMAIN clientes : clientes[i] = "conectado"

(***************************************************************************)
(* ESP32: estimator, change gate and publication.                          *)
(***************************************************************************)
\* mutant: the upper clamp is missing
calculateSOCSinTope(voltage) ==
  LET soc == voltage - V_MIN_EMPTY
  IN IF soc < 0 THEN 0 ELSE soc

\* calculateSOC_voltage(voltage): millivolts -> 1/57 of a point, clamped
calculateSOC_voltage(voltage) ==
  LET soc == voltage - V_MIN_EMPTY
  IN IF soc < 0 THEN 0
     ELSE IF soc > 100 * PuntoSOC THEN 100 * PuntoSOC
     ELSE soc

\* calculateSOC_voltage in a firmware built with V_MIN_EMPTY = vMin and
\* V_MAX_FULL = vMax (millivolts), in float arithmetic: the SOC in percent as
\* the fraction num/den; x/0 is +inf or -inf, which the clamps turn into 100
\* or 0, and 0/0 is NaN, which passes both clamps
calculateSOC_config(voltage, vMin, vMax) ==
  LET num == 100 * (voltage - vMin)
      den == vMax - vMin
  IN IF den = 0
       THEN IF num = 0 THEN [nan |-> TRUE, num |-> 0, den |-> 1]
            ELSE IF num < 0 THEN [nan |-> FALSE, num |-> 0, den |-> 1]
            ELSE [nan |-> FALSE, num |-> 100, den |-> 1]
     ELSE IF (num < 0 /\ den > 0) \/ (num > 0 /\ den < 0)
       THEN [nan |-> FALSE, num |-> 0, den |-> 1]
     ELSE IF (den > 0 /\ num > 100 * den) \/ (den < 0 /\ num < 100 * den)
       THEN [nan |-> FALSE, num |-> 100, den |-> 1]
     ELSE [nan |-> FALSE, num |-> Abs(num), den |-> Abs(den)]

\* String(SOC, 1): the SOC on the wire, in tenths of a point
socEnviado(soc) == Redondear(soc * UnidadSOC, PuntoSOC)

\* String(V, 2): the voltage on the wire, in centivolts
voltajeEnviado(voltage) == Redondear(voltage, 10)

\* mutant: the charge time is given by the mode, not by the sign
estimateTimeToFullPorModo(current_A, soc_percent) ==
  IF current_A >= -10 THEN [num |-> -1, den |-> 1]
  ELSE [num |-> CAP_AH * (100 * PuntoSOC - soc_percent) * 100,
        den |-> PuntoSOC * (-current_A) * 95]

\* estimateTimeToFull_hours(current_A, soc_percent): hours as the fraction
\* num/den in lower terms; ah_needed / ((-I) * 0.95) with
\* ah_needed = CAP_AH * (100 - SOC) / 100, the current in centiamperes
estimateTimeToFull_hours(current_A, soc_percent) ==
  IF current_A >= 0 THEN [num |-> -1, den |-> 1]
  ELSE [num |-> CAP_AH * (100 * PuntoSOC - soc_percent) * 100,
        den |-> PuntoSOC * (-current_A) * 95]

\* mutant: the charge efficiency is applied to the discharge as well
estimateTimeToEmptyConEficiencia(current_A, soc_percent) ==
  IF current_A <= 0 THEN [num |-> -1, den |-> 1]
  ELSE [num |-> CAP_AH * soc_percent * 100, den |-> PuntoSOC * current_A * 95]

\* estimateTimeToEmpty_hours(current_A, soc_percent): hours as the fraction
\* num/den in lower terms; ah_available / I with
\* ah_available = CAP_AH * SOC / 100, the current in centiamperes
estimateTimeToEmpty_hours(current_A, soc_percent) ==
  IF current_A <= 0 THEN [num |-> -1, den |-> 1]
  ELSE [num |-> CAP_AH * soc_percent, den |-> PuntoSOC * current_A]

\* String(t, 1): hours on the wire, in tenths of an hour
horasEnviadas(t) == Redondear(t.num * 10, t.den)

\* String(estimateTimeToFull_hours(I, SOC), 1)
tiempoCargaEnviado(current_A, soc) ==
  horasEnviadas(estimateTimeToFull_hours(current_A, soc))

\* String(estimateTimeToEmpty_hours(I, SOC), 1)
tiempoDescargaEnviado(current_A, soc) ==
  horasEnviadas(estimateTimeToEmpty_hours(current_A, soc))

\* mutant: a reading is published only when the three values have all changed
cambioEnTodas(SOC, V, I, uSOC, uV, uI) ==
  /\ 2 * Abs(SOC - uSOC) >= PuntoSOC
  /\ Abs(V - uV) >= UMBRAL_V
  /\ Abs(I - uI) >= UMBRAL_I

\* mutant: > instead of >=
cambioEstricto(SOC, V, I, uSOC, uV, uI) ==
  \/ uSOC = SIN_BASE * PuntoSOC
  \/ 2 * Abs(SOC - uSOC) > PuntoSOC
  \/ Abs(V - uV) > UMBRAL_V
  \/ Abs(I - uI) > UMBRAL_I

\* mutant: every reading is published
cambioSiempre(SOC, V, I, uSOC, uV, uI) == TRUE

\* mutant: the current is left out of the gate
cambioSinCorriente(SOC, V, I, uSOC, uV, uI) ==
  \/ uSOC = SIN_BASE * PuntoSOC
  \/ 2 * Abs(SOC - uSOC) >= PuntoSOC
  \/ Abs(V - uV) >= UMBRAL_V

\* the change gate of loop(): pub, for the reading (SOC, V, I) against the
\* last published (uSOC, uV, uI)
cambioSignificativo(SOC, V, I, uSOC, uV, uI) ==
  \/ uSOC = SIN_BASE * PuntoSOC
  \/ 2 * Abs(SOC - uSOC) >= PuntoSOC
  \/ Abs(V - uV) >= UMBRAL_V
  \/ Abs(I - uI) >= UMBRAL_I

\* pub in the state of the device
debePublicar(SOC, V, I) == cambioSignificativo(SOC, V, I, lastSOC, lastV, lastI)

\* the JSON payload of loop()
json(SOC, V, I) ==
  [voltage |-> voltajeEnviado(V), current |-> I, soc |-> socEnviado(SOC),
   time_to_full |-> tiempoCargaEnviado(I, SOC),
   time_to_empty |-> tiempoDescargaEnviado(I, SOC)]

\* mutant: the baseline is taken as soon as the gate decides to publish
actualizaBaseAlDecidir(pub, connected, publishOk) == pub

\* whether loop() reaches lastSOC = SOC; lastV = V; lastI = I
actualizaBase(pub, connected, publishOk) == pub /\ connected /\ publishOk

\* loop() from the readings to its end: V and I are what readVin_V() and
\* readCurrent_A() return, connected what mqttClient.connected() answers,
\* publishOk what mqttClient.publish returns
medirYPublicar(V, I, connected, publishOk) ==
  LET SOC == calculateSOC_voltage(V)
      t_full == estimateTimeToFull_hours(I, SOC)
      t_empty == estimateTimeToEmpty_hours(I, SOC)
      pub == debePublicar(SOC, V, I)
      enviado == pub /\ connected /\ publishOk
      guarda == actualizaBase(pub, connected, publishOk)
  IN /\ enviado => Len(cola) < MaxCola
     /\ cola' = IF enviado THEN Append(cola, json(SOC, V, I)) ELSE cola
     /\ lastSOC' = IF guarda THEN SOC ELSE lastSOC
     /\ lastV' = IF guarda THEN V ELSE lastV
     /\ lastI' = IF guarda THEN I ELSE lastI
     /\ iter' = [V |-> V, I |-> I, SOC |-> SOC, t_full |-> t_full, t_empty |-> t_empty,
                 socEnviado |-> socEnviado(SOC), pub |-> pub, conectado |-> connected,
                 enviado |-> enviado, fresca |-> lastSOC = SIN_BASE * PuntoSOC,
                 previo |-> IF enviado THEN <<json(SOC, V, I)>> ELSE iter.previo,
                 publicada |-> IF enviado THEN <<SOC, V, I>> ELSE iter.publicada,
                 n |-> IF iter.n = 1 THEN 2 ELSE 1]
     /\ UNCHANGED <<varsTelegram, varsMQTT, varsObsSus, varsObsAlerta, batteryData,
                    varsConfig, recibido, consulta, varsCiclo, varsSim, varsServicio>>

\* one iteration of loop() whose calls of setup_wifi() and reconnectMQTT()
\* leave mqttClient.connected() answering connected
loop(V, I, connected, publishOk) ==
  /\ medirYPublicar(V, I, connected, publishOk)
  /\ UNCHANGED varsEnlace

\* the condition of the while of setup_wifi()
sigueWifi(status, attempts) == ~status /\ attempts < 20

\* mutant: reconnectMQTT() tries until it is connected
sigueMQTTSinLimite(connected, attempts) == ~connected

\* the condition of the while of reconnectMQTT()
sigueMQTT(connected, attempts) == ~connected /\ attempts < 3

\* loop() starts: if (WiFi.status() != WL_CONNECTED) setup_wifi(); otherwise
\* on to if (!mqttClient.connected()) reconnectMQTT()
iniciarIteracion ==
  /\ pc = "inicio"
  /\ IF wifiStatus THEN pc' = "mqtt" /\ attemptsMQTT' = 0 /\ UNCHANGED attemptsWifi
     ELSE pc' = "wifi" /\ attemptsWifi' = 0 /\ UNCHANGED attemptsMQTT
  /\ UNCHANGED <<varsTelegram, varsMQTT, varsESP, cola, varsObsSus, varsObsAlerta, iter,
                 batteryData, varsConfig, recibido, consulta, varsCiclo, varsSim, varsServicio,
                 wifiStatus, mqttConnected>>

\* one turn of the while of setup_wifi(): delay(500), attempts++; status is
\* what WiFi.status() answers afterwards
esperaWifi(status) ==
  /\ pc = "wifi"
  /\ sigueWifi(wifiStatus, attemptsWifi)
  /\ attemptsWifi' = attemptsWifi + 1
  /\ wifiStatus' = status
  /\ UNCHANGED <<varsTelegram, varsMQTT, varsESP, cola, varsObsSus, varsObsAlerta, iter,
                 batteryData, varsConfig, recibido, consulta, varsCiclo, varsSim, varsServicio,
                 pc, attemptsMQTT, mqttConnected>>

\* setup_wifi() returns; loop() goes on to reconnectMQTT()
finWifi ==
  /\ pc = "wifi"
  /\ ~sigueWifi(wifiStatus, attemptsWifi)
  /\ pc' = "mqtt"
  /\ attemptsMQTT' = 0
  /\ UNCHANGED <<varsTelegram, varsMQTT, varsESP, cola, varsObsSus, varsObsAlerta, iter,
                 batteryData, varsConfig, recibido, consulta, varsCiclo, varsSim, varsServicio,
                 attemptsWifi, wifiStatus, mqttConnected>>

\* one turn of the while of reconnectMQTT(): ok is what mqttClient.connect
\* returns, true only with WiFi; a failure waits 5 s and counts
intentoMQTT(ok) ==
  /\ pc = "mqtt"
  /\ sigueMQTT(mqttConnected, attemptsMQTT)
  /\ ok => wifiStatus
  /\ mqttConnected' = ok
  /\ attemptsMQTT' = IF ok THEN attemptsMQTT ELSE attemptsMQTT + 1
  /\ UNCHANGED <<varsTelegram, varsMQTT, varsESP, cola, varsObsSus, varsObsAlerta, iter,
                 batteryData, varsConfig, recibido, consulta, varsCiclo, varsSim, varsServicio,
                 pc, attemptsWifi, wifiStatus>>

\* reconnectMQTT() returns or is not called; loop() goes on to the readings
finMQTT ==
  /\ pc = "mqtt"
  /\ ~sigueMQTT(mqttConnected, attemptsMQTT)
  /\ pc' = "medir"
  /\ UNCHANGED <<varsTelegram, varsMQTT, varsESP, cola, varsObsSus, varsObsAlerta, iter,
                 batteryData, varsConfig, recibido, consulta, varsCiclo, varsSim, varsServicio,
                 attemptsWifi, attemptsMQTT, wifiStatus, mqttConnected>>

\* the rest of loop(): readings, estimates, gate, publication, delay(5000)
finIteracion(V, I, publishOk) ==
  /\ pc = "medir"
  /\ medirYPublicar(V, I, mqttConnected, publishOk)
  /\ pc' = "inicio"
  /\ UNCHANGED <<attemptsWifi, attemptsMQTT, wifiStatus, mqttConnected>>

\* between two iterations the device loses the WiFi, and with it the broker,
\* or the broker alone
caeEnlace(wifi) ==
  /\ pc = "inicio"
  /\ wifiStatus \/ mqttConnected
  /\ wifiStatus' = (wifiStatus /\ wifi)
  /\ mqttConnected' = FALSE
  /\ UNCHANGED <<varsTelegram, varsMQTT, varsESP, cola, varsObsSus, varsObsAlerta, iter,
                 batteryData, varsConfig, recibido, consulta, varsCiclo, varsSim, varsServicio,
                 pc, attemptsWifi, attemptsMQTT>>

\* the device starts again: the globals take their initial values
setup ==
  /\ lastSOC' = SIN_BASE * PuntoSOC
  /\ lastV' = SIN_BASE * 1000
  /\ lastI' = SIN_BASE * 100
  /\ iter' = [iter EXCEPT !.publicada = <<>>]
  /\ simulatedVoltage' = 24500
  /\ simulatedCurrent' = 250
  /\ simulationCharging' = FALSE
  /\ UNCHANGED <<varsTelegram, varsMQTT, cola, varsObsSus, varsObsAlerta,
                 batteryData, varsConfig, recibido, consulta, varsCiclo, varsEnlace, varsServicio>>

\* mutant: the discharge lowers the voltage by 0.003 V
voltajeSimuladoLento(voltaje, cargando) ==
  IF cargando THEN voltaje + 50 ELSE voltaje - 3

\* simulatedVoltage += 0.05f when charging, -= 0.03f when discharging
voltajeSimulado(voltaje, cargando) ==
  IF cargando THEN voltaje + 50 ELSE voltaje - 30

\* constrain(x, a, b)
constrain(x, a, b) == IF x < a THEN a ELSE IF x > b THEN b ELSE x

\* updateSimulation() once simulationInterval has passed, as in every
\* iteration of loop() after its delay(5000): ruidoI and ruidoV are what
\* random() returns for the current and for the voltage
updateSimulation(ruidoI, ruidoV) ==
  LET voltaje == voltajeSimulado(simulatedVoltage, simulationCharging)
  IN /\ simulatedCurrent' = (IF simulationCharging THEN -200 ELSE 300) + ruidoI
     /\ simulationCharging' = IF simulationCharging THEN ~(voltaje >= 26000)
                              ELSE voltaje <= 23000
     /\ simulatedVoltage' = constrain(voltaje, 22000, 27000) + ruidoV
     /\ UNCHANGED <<varsTelegram, varsMQTT, varsESP, cola, varsObsSus, varsObsAlerta, iter,
                    batteryData, varsConfig, recibido, consulta, varsCiclo, varsEnlace, varsServicio>>

\* setup() and the start of an iteration of loop() in the firmware built with
\* the constants of config: setup() checks nothing, loop() reads the voltage and
\* computes the SOC
loopConfig(V) ==
  /\ calc' = [V |-> V, soc |-> calculateSOC_config(V, config.vMin, config.vMax),
              n |-> IF calc.n = 1 THEN 2 ELSE 1]
  /\ UNCHANGED <<varsTelegram, varsMQTT, varsESP, cola, varsObsSus, varsObsAlerta, iter,
                 batteryData, config, recibido, consulta, varsCiclo,
                 varsOtros>>

\* the broker has no subscriber for the oldest message in flight (published
\* with retained = false) and drops it
DescartarMensaje ==
  /\ cola # <<>>
  /\ cola' = Tail(cola)
  /\ UNCHANGED <<varsTelegram, varsMQTT, varsESP, varsObsSus, varsObsAlerta, iter,
                 batteryData, varsResto>>

\* the broker delivers the oldest message in flight: cliente.on('message')
EntregarMensaje ==
  /\ cola # <<>>
  /\ haySuscrito
  /\ mensajesRecibidos < MaxMensajes
  /\ procesarMensaje(Head(cola))
  /\ cola' = Tail(cola)
  /\ UNCHANGED <<varsESP, iter>>

\* a message of another publisher of the topic reaches cliente.on('message')
RecibirMensaje(datos) ==
  /\ mensajesRecibidos < MaxMensajes
  /\ haySuscrito
  /\ procesarMensaje(datos)
  /\ UNCHANGED <<varsESP, cola, iter>>

(***************************************************************************)
(* Dashboard: MonitorBateriaComponente.                                    *)
(***************************************************************************)
\* mutant: the dashboard takes the deadband to be twice as wide
getCurrentStateAncho(corriente) ==
  IF corriente < -20 THEN [icon |-> "rayo", text |-> "Cargando", color |-> "#4CAF50"]
  ELSE IF corriente > 20
    THEN [icon |-> "bateria", text |-> "Descargando", color |-> "#ff9800"]
    ELSE [icon |-> "zzz", text |-> "Reposo", color |-> "#2196F3"]

\* getCurrentState(current), the current in centiamperes
getCurrentState(corriente) ==
  IF corriente < -10 THEN [icon |-> "rayo", text |-> "Cargando", color |-> "#4CAF50"]
  ELSE IF corriente > 10
    THEN [icon |-> "bateria", text |-> "Descargando", color |-> "#ff9800"]
    ELSE [icon |-> "zzz", text |-> "Reposo", color |-> "#2196F3"]

\* get current(): batteryData?.current || 0
current == IF batteryData = <<>> THEN 0 ELSE batteryData[1].current

\* get currentState(): getCurrentState(this.current)
currentState == getCurrentState(current)

\* client.on('message') of the dashboard and batteryData$.subscribe: the parsed
\* payload becomes batteryData, the time of arrival lastUpdate
alMensajeDashboard(datos) ==
  /\ client = "suscrito"
  /\ batteryData' = <<datos>>
  /\ lastUpdate' = <<"now", 0>>
  /\ UNCHANGED <<varsNoServicio, peticion, respuesta, temporizador, client, isConnected,
                 connectionStatus>>

(***************************************************************************)
(* Dashboard: MqttServicio.                                                *)
(***************************************************************************)
\* the backend, or the network, answers the fetch of obtenerEstadoInicial():
\* ok is whether fetch resolves with response.ok, the data are
\* obtenerUltimoEstado() of that moment
respuestaEstado(ok) ==
  /\ peticion = "pendiente"
  /\ peticion' = "respondida"
  /\ respuesta' = [ok |-> ok, data |-> obtenerUltimoEstado]
  /\ UNCHANGED <<varsNoServicio, batteryData, temporizador, client, isConnected,
                 connectionStatus, lastUpdate>>

\* if (data.voltage && data.soc !== undefined)
datosValidos(data) == data.voltage # 0 /\ "soc" \in DOMAIN data

\* const estadoInicial: DatosBateria
estadoInicial(data) ==
  [voltage |-> data.voltage, current |-> data.current, soc |-> data.soc,
   time_to_full |-> data.time_to_full, time_to_empty |-> data.time_to_empty]

\* obtenerEstadoInicial() after its awaits: valid data are emitted with their
\* timestamp and the status becomes 'Conectando a MQTT...'; a failure goes to
\* the catch
alResponder ==
  /\ peticion = "respondida"
  /\ peticion' = "terminada"
  /\ IF ~respuesta.ok
       THEN /\ connectionStatus' = "Esperando datos..."
            /\ UNCHANGED <<batteryData, lastUpdate>>
       ELSE IF datosValidos(respuesta.data)
         THEN /\ batteryData' = <<estadoInicial(respuesta.data)>>
              /\ lastUpdate' = IF respuesta.data.timestamp # 0
                                 THEN <<"timestamp", respuesta.data.timestamp>>
                                 ELSE lastUpdate
              /\ connectionStatus' = "Conectando a MQTT..."
         ELSE UNCHANGED <<batteryData, lastUpdate, connectionStatus>>
  /\ UNCHANGED <<varsNoServicio, respuesta, temporizador, client, isConnected>>

\* the timer of the constructor fires: connect() creates the client
connect ==
  /\ temporizador
  /\ temporizador' = FALSE
  /\ client' = "conectando"
  /\ UNCHANGED <<varsNoServicio, batteryData, peticion, respuesta, isConnected,
                 connectionStatus, lastUpdate>>

\* client.on('connect'): 'En línea', and the subscription is asked for
alConnectServicio ==
  /\ client \in {"conectando", "reconectando"}
  /\ client' = "conectado"
  /\ isConnected' = TRUE
  /\ connectionStatus' = "En línea"
  /\ UNCHANGED <<varsNoServicio, batteryData, peticion, respuesta, temporizador, lastUpdate>>

\* the callback of client.subscribe
alSuscribir(err) ==
  /\ client = "conectado"
  /\ client' = IF err THEN "sin suscripcion" ELSE "suscrito"
  /\ connectionStatus' = IF err THEN "Error en suscripción" ELSE connectionStatus
  /\ UNCHANGED <<varsNoServicio, batteryData, peticion, respuesta, temporizador, isConnected,
                 lastUpdate>>

\* client.on('error'), of an attempt to connect that fails
alErrorServicio ==
  /\ client \in {"conectando", "reconectando"}
  /\ client' = "desconectado"
  /\ isConnected' = FALSE
  /\ connectionStatus' = "Error de conexión"
  /\ UNCHANGED <<varsNoServicio, batteryData, peticion, respuesta, temporizador, lastUpdate>>

\* client.on('offline')
alOffline ==
  /\ client \in {"conectado", "suscrito", "sin suscripcion"}
  /\ client' = "desconectado"
  /\ isConnected' = FALSE
  /\ connectionStatus' = "Desconectado"
  /\ UNCHANGED <<varsNoServicio, batteryData, peticion, respuesta, temporizador, lastUpdate>>

\* client.on('reconnect')
alReconnect ==
  /\ client = "desconectado"
  /\ client' = "reconectando"
  /\ connectionStatus' = "Reconectando..."
  /\ UNCHANGED <<varsNoServicio, batteryData, peticion, respuesta, temporizador, isConnected,
                 lastUpdate>>

(***************************************************************************)
(* Inputs.                                                                 *)
(***************************************************************************)
\* sensor voltages (mV) whose SOC goes on the wire as 19.0, 19.9, 20.0, 20.3,
\* 21.0, 24.9, 25.0 and 26.0
VoltajesAlerta == {21883, 21934, 21940, 21997, 22219, 22225, 22282}
VoltajesPrueba == {21883, 21934, 21957, 22225}
CorrientesPrueba == {250, 260, 280}
\* payloads in the format of the device
MensajesPrueba == {json(calculateSOC_voltage(V), V, 250) : V \in VoltajesAlerta}
\* readings of the gate: steps of 0.020, 0.029 and 0.100 V, of 0.20 A
VoltajesPuerta == {24000, 24020, 24029, 26500, 26600}
CorrientesPuerta == {-100, 100, 120}
\* readings of the estimator: below, at and above both ends of the voltage
\* range; outside, at the edges of and inside the deadband of the current
VoltajesEstimador == {20000, 20800, 20801, 23650, 25200, 26499, 26500, 27000}
CorrientesEstimador == {-250, -150, -11, -10, -5, 0, 5, 10, 11, 150, 250}
VoltajesEstados == {23650, 25200}
\* payloads of the device for the readings of the estimator
MensajesEstimador ==
  {json(calculateSOC_voltage(V), V, I) : V \in VoltajesEstados, I \in CorrientesEstimador}

\* payloads of the device for a low and a high SOC, charging, idle and
\* discharging
MensajesServidor ==
  {json(calculateSOC_voltage(V), V, I) : V \in {21883, 25200}, I \in {-250, 0, 250}}
\* the JSON object datos without the field nombre
SinCampo(datos, nombre) == [c \in DOMAIN datos \ {nombre} |-> datos[c]]
\* payloads that are JSON objects without the voltage or without the current
MensajesIncompletos ==
  {SinCampo(json(calculateSOC_voltage(21883), 21883, 250), "voltage"),
   SinCampo(json(calculateSOC_voltage(25200), 25200, -250), "current")}
\* a payload that is not JSON
MensajesRotos == {[roto |-> TRUE]}

\* values of random(-10, 10), random(-20, 20) and random(-30, 30): both ends
\* of each range, and 0
RuidosVoltaje == {-10, 0, 9}
RuidosCarga == {-20, 19}
RuidosDescarga == {-30, 29}

\* two readings 0.029 V apart
VoltajesEnlace == {24000, 24029}
CorrientesEnlace == {100}

\* constants a firmware can be built with: the published ones, other valid
\* ranges, and ranges with V_MAX_FULL = V_MIN_EMPTY or V_MAX_FULL < V_MIN_EMPTY
Configuraciones ==
  {[vMin |-> V_MIN_EMPTY, vMax |-> V_MAX_FULL], [vMin |-> 21000, vMax |-> 26000],
   [vMin |-> 20000, vMax |-> 27000], [vMin |-> V_MIN_EMPTY, vMax |-> V_MIN_EMPTY],
   [vMin |-> 23650, vMax |-> 23650], [vMin |-> V_MAX_FULL, vMax |-> V_MIN_EMPTY],
   [vMin |-> 25000, vMax |-> 24000]}

(***************************************************************************)
(* Specifications.                                                         *)
(***************************************************************************)
\* every variable but the constants of the firmware
InitComun ==
  /\ suscriptores = {}
  /\ alertaBajaEnviada = FALSE
  /\ salida = EmptyBag
  /\ ultimoEstado = EstadoInicial
  /\ mensajesRecibidos = 0
  /\ lastSOC = SIN_BASE * PuntoSOC
  /\ lastV = SIN_BASE * 1000
  /\ lastI = SIN_BASE * 100
  /\ cola = <<>>
  /\ ultimaLlamada = [op |-> "ninguna", chatId |-> toString(0), antes |-> {},
                      retorno |-> FALSE, alertaAntes |-> FALSE]
  /\ silenciados = {}
  /\ evento = [soc |-> 0, antes |-> FALSE, invocada |-> FALSE, reseteo |-> FALSE,
               n |-> 0]
  /\ guionPos = 0
  /\ numDisparos = 0
  /\ numReseteos = 0
  /\ disparosEpisodio = 0
  /\ iter = [V |-> 0, I |-> 0, SOC |-> 0, t_full |-> [num |-> 0, den |-> 1],
             t_empty |-> [num |-> 0, den |-> 1], socEnviado |-> 0, pub |-> FALSE,
             conectado |-> FALSE, enviado |-> FALSE, fresca |-> TRUE,
             previo |-> <<>>, publicada |-> <<>>, n |-> 0]
  /\ batteryData = <<>>
  /\ calc = [V |-> 0, soc |-> [nan |-> FALSE, num |-> 0, den |-> 1], n |-> 0]

  /\ recibido = [mensaje |-> [roto |-> FALSE], n |-> 0, huboRoto |-> FALSE]
  /\ simulatedVoltage = 24500
  /\ simulatedCurrent = 250
  /\ simulationCharging = FALSE
  /\ pc = "inicio"
  /\ attemptsWifi = 0
  /\ attemptsMQTT = 0
  /\ wifiStatus = FALSE
  /\ mqttConnected = FALSE
  /\ consulta = [origen |-> "ninguna", estado |-> EstadoInicial,
                 mqtt_conectado |-> FALSE, mensajes_recibidos |-> 0, n |-> 0]

\* the backend once iniciarServicios has finished and its client has connected
Operativo ==
  /\ clientes = <<"conectado">>
  /\ conectado = TRUE
  /\ fase = "operativo"
  /\ alcanzable = TRUE

\* the dashboard service once the backend has answered without data and the
\* client has subscribed
EnLinea ==
  /\ peticion = "terminada"
  /\ respuesta = [ok |-> TRUE, data |-> EstadoInicial]
  /\ temporizador = FALSE
  /\ client = "suscrito"
  /\ isConnected = TRUE
  /\ connectionStatus = "En línea"
  /\ lastUpdate = <<"--", 0>>

\* the firmware as published, V_MIN_EMPTY 20.8 V and V_MAX_FULL 26.5 V, the
\* backend and the dashboard in operation
Init ==
  /\ InitComun
  /\ config = [vMin |-> V_MIN_EMPTY, vMax |-> V_MAX_FULL]
  /\ Operativo
  /\ EnLinea

\* the dashboard service as its constructor leaves it, the backend in operation
InitServicio ==
  /\ InitComun
  /\ config = [vMin |-> V_MIN_EMPTY, vMax |-> V_MAX_FULL]
  /\ Operativo
  /\ peticion = "pendiente"
  /\ respuesta = [ok |-> FALSE, data |-> EstadoInicial]
  /\ temporizador = TRUE
  /\ client = "ninguno"
  /\ isConnected = FALSE
  /\ connectionStatus = "Cargando estado inicial..."
  /\ lastUpdate = <<"--", 0>>

\* the backend as the constructors leave it, before iniciarServicios()
InitArranque ==
  /\ InitComun
  /\ config = [vMin |-> V_MIN_EMPTY, vMax |-> V_MAX_FULL]
  /\ clientes = <<>>
  /\ conectado = FALSE
  /\ fase = "construido"
  /\ alcanzable \in BOOLEAN
  /\ EnLinea

\* a firmware built with any of Configuraciones
InitConfiguracion ==
  /\ InitComun
  /\ config \in Configuraciones
  /\ Operativo
  /\ EnLinea

\* the bot commands of NumChats chats
NextSuscriptores ==
  \E chat \in Chats :
    \/ ComandoStart(chat)
    \/ ComandoAlertas(chat)
    \/ ComandoSilencio(chat)

SpecSuscriptores == Init /\ [][NextSuscriptores]_vars

\* readings reaching the backend, interleaved with the bot commands
NextAlertas ==
  \/ \E chat \in ChatsAlerta :
       \/ ComandoStart(chat)
       \/ ComandoAlertas(chat)
       \/ ComandoSilencio(chat)
  \/ \E datos \in MensajesPrueba : RecibirMensaje(datos)

SpecAlertas == Init /\ [][NextAlertas]_vars

\* the device, the broker and the backend
NextSistema ==
  \/ \E V \in VoltajesPrueba, I \in CorrientesPrueba, connected \in BOOLEAN :
       \E publishOk \in (IF connected THEN BOOLEAN ELSE {FALSE}) :
         loop(V, I, connected, publishOk)
  \/ EntregarMensaje

SpecSistema == Init /\ [][NextSistema]_vars

\* the device alone: it reads, publishes, starts again; nobody is subscribed
NextDispositivo ==
  \/ \E V \in VoltajesPuerta, I \in CorrientesPuerta, connected \in BOOLEAN :
       \E publishOk \in (IF connected THEN BOOLEAN ELSE {FALSE}) :
         loop(V, I, connected, publishOk)
  \/ setup
  \/ DescartarMensaje

SpecDispositivo == Init /\ [][NextDispositivo]_vars

\* the SOC of a firmware built with any of Configuraciones
NextConfiguracion == \E V \in VoltajesEstimador : loopConfig(V)

SpecConfiguracion == InitConfiguracion /\ [][NextConfiguracion]_vars

\* the backend in operation: payloads of every kind, interleaved with the
\* queries of the last state
NextMensajes ==
  \/ \E mensaje \in MensajesServidor \cup MensajesIncompletos \cup MensajesRotos :
       RecibirMensaje(mensaje)
  \/ GetEstado
  \/ \E chat \in ChatsAlerta : ComandoEstado(chat)

SpecMensajes == Init /\ [][NextMensajes]_vars

\* the backend from its start: iniciarServicios, the events of its MQTT
\* clients, the maintenance timer and the messages of the topic
NextArranque ==
  \/ iniciarServicios
  \/ finEspera
  \/ \E i \in DOMAIN clientes : alConnect(i)
  \/ \E i \in DOMAIN clientes : alClose(i)
  \/ \E i \in DOMAIN clientes : alError(i)
  \/ caeBroker
  \/ vuelveBroker
  \/ mantenimiento
  \/ \E mensaje \in MensajesServidor : RecibirMensaje(mensaje)

SpecArranque == InitArranque /\ [][NextArranque]_vars

\* the simulation of the readings, one update after another
NextSimulacion ==
  \E ruidoV \in RuidosVoltaje :
    \E ruidoI \in (IF simulationCharging THEN RuidosCarga ELSE RuidosDescarga) :
      updateSimulation(ruidoI, ruidoV)

\* loop() runs again and again, and every iteration updates the simulation
SpecSimulacion == Init /\ [][NextSimulacion]_vars /\ WF_vars(NextSimulacion)

\* the steps of the device within loop()
PasoDispositivo ==
  \/ iniciarIteracion
  \/ \E status \in BOOLEAN : esperaWifi(status)
  \/ finWifi
  \/ \E ok \in BOOLEAN : intentoMQTT(ok)
  \/ finMQTT
  \/ \E V \in VoltajesEnlace, I \in CorrientesEnlace, publishOk \in BOOLEAN :
       finIteracion(V, I, publishOk)

\* loop() step by step, with a network that comes and goes
NextEnlace ==
  \/ PasoDispositivo
  \/ \E wifi \in BOOLEAN : caeEnlace(wifi)
  \/ DescartarMensaje

\* the processor of the device keeps running
SpecEnlace == Init /\ [][NextEnlace]_vars /\ WF_vars(PasoDispositivo)

\* the dashboard service from its construction on, while the backend
\* receives the payloads of the device
NextServicio ==
  \/ \E ok \in BOOLEAN : respuestaEstado(ok)
  \/ alResponder
  \/ connect
  \/ alConnectServicio
  \/ \E err \in BOOLEAN : alSuscribir(err)
  \/ alErrorServicio
  \/ alOffline
  \/ alReconnect
  \/ \E datos \in MensajesServidor :
       \/ RecibirMensaje(datos)
       \/ alMensajeDashboard(datos)

SpecServicio == InitServicio /\ [][NextServicio]_vars

\* the estimator of a device that is never connected
NextEstimador ==
  \E V \in VoltajesEstimador, I \in CorrientesEstimador : loop(V, I, FALSE, FALSE)

SpecEstimador == Init /\ [][NextEstimador]_vars

\* the payloads of the device reaching the backend and the dashboard
NextEstados ==
  \E datos \in MensajesEstimador :
    \/ RecibirMensaje(datos)
    \/ alMensajeDashboard(datos)

SpecEstados == Init /\ [][NextEstados]_vars

(***************************************************************************)
(* Properties.                                                             *)
(***************************************************************************)
umbralBaja == bateriaBaja * UnidadSOC
umbralRecuperacion == recuperacion * UnidadSOC

\* the step is the handling of a reading by the backend
PasoLectura == mensajesRecibidos' = mensajesRecibidos + 1

\* the step fires the low-battery alert
PasoDisparo == numDisparos' = numDisparos + 1

\* the low-battery message to a chat
Alerta(chatId) == [chat |-> chatId, texto |-> "BATERIA BAJA"]

\* the state of the alert along the readings [25, 19, 21, 19, 26]; a reading that
\* finds the alert active does not fire
C1_GuionHisteresis ==
  /\ guionPos \in {0, 1} => numDisparos = 0 /\ numReseteos = 0 /\ ~alertaBajaEnviada
  /\ guionPos \in {2, 3, 4} => numDisparos = 1 /\ numReseteos = 0 /\ alertaBajaEnviada
  /\ guionPos = 5 => numDisparos = 1 /\ numReseteos = 1 /\ ~alertaBajaEnviada
  /\ evento.antes => ~evento.invocada

\* C1: hysteresis. A firing that is not the first one happens only after a
\* reading with SOC >= 25 has been seen since the previous firing; a reading
\* that finds the alert active never fires; and the readings
\* [25, 19, 21, 19, 26] fire once, at the first 19, and reset the flag once,
\* at 26.
C1_Histeresis ==
  /\ []C1_GuionHisteresis
  /\ [][(PasoDisparo /\ numDisparos >= 1) => disparosEpisodio = 0]_vars

\* C1 witness: the five readings of the scenario have been processed
C1_Witness == guionPos = 5 /\ mensajesRecibidos = 5

\* C2: a reading fires the alert (enviarAlertaBateriaBaja is invoked and the
\* flag goes from false to true) exactly when its SOC is strictly below 20 and
\* the flag was false; a reading of exactly 20 never fires.
C2_DisparoSiYSoloSi ==
  evento.n > 0 =>
    /\ evento.invocada <=> (evento.soc < umbralBaja /\ ~evento.antes)
    /\ (alertaBajaEnviada /\ ~evento.antes) <=> (evento.soc < umbralBaja /\ ~evento.antes)
    /\ evento.soc = umbralBaja => ~evento.invocada

\* C2 witness: a reading of exactly 20 with the flag false, which did not fire
C2_Witness ==
  evento.n > 0 /\ evento.soc = umbralBaja /\ ~evento.antes /\ ~alertaBajaEnviada
  /\ numDisparos = 1

\* C3: the flag goes from true to false exactly on a reading with SOC >= 25; a
\* reading in the band [20, 25) leaves the flag as it was.
C3_ReseteoSiYSoloSi ==
  evento.n > 0 =>
    /\ evento.antes => (~alertaBajaEnviada <=> evento.soc >= umbralRecuperacion)
    /\ (evento.soc >= umbralBaja /\ evento.soc < umbralRecuperacion)
         => alertaBajaEnviada = evento.antes

\* C3 witness: a reading just under 25 that found the flag true and left it true
C3_Witness ==
  evento.n > 0 /\ evento.antes /\ evento.soc = umbralRecuperacion - 1
  /\ alertaBajaEnviada

\* C4: every estimated sample reaches the alert handler: once an iteration of
\* the device with a SOC below 20 is over, the client connected, every
\* attempted publish done and delivered, the alert is active.
C4_AlertaEvaluaCadaMuestra ==
  (/\ iter.n > 0
   /\ iter.conectado
   /\ iter.pub => iter.enviado
   /\ iter.socEnviado < umbralBaja
   /\ cola = <<>>) => alertaBajaEnviada

\* a chat whose last subscription command is /silencio is no member and has no
\* alert among the messages just sent
C5_SilenciadosSinAlerta ==
  \A chat \in silenciados :
    /\ toString(chat) \notin suscriptores
    /\ ~BagIn(Alerta(toString(chat)), salida)

\* C5: the step that fires sends exactly one message to each member of
\* suscriptores and to nobody else; a chat whose last subscription command is
\* /silencio is no member and gets no alert.
C5_UnEnvioPorSuscriptor ==
  /\ [][PasoDisparo =>
         /\ \A chat \in Chats :
              CopiesIn(Alerta(toString(chat)), salida') =
                IF toString(chat) \in suscriptores THEN 1 ELSE 0
         /\ BagCardinality(salida') = Cardinality(suscriptores)]_vars
  /\ []C5_SilenciadosSinAlerta

\* C5 witness: the alert has just gone to the one subscriber while another chat
\* is silenced
C5_Witness ==
  /\ evento.invocada
  /\ silenciados # {}
  /\ Cardinality(suscriptores) = 1
  /\ \E chat \in ChatsAlerta : salida = SetToBag({Alerta(toString(chat))})

\* C6: under every interleaving of readings and bot commands an episode (the
\* readings since the last one with SOC >= 25) fires at most once.
C6_UnDisparoPorEpisodio == disparosEpisodio <= 1

\* C6 witness: after a firing and a subscription, a low reading found the alert
\* active and sent nothing
C6_Witness ==
  /\ disparosEpisodio = 1
  /\ evento.antes /\ evento.soc < umbralBaja
  /\ ultimaLlamada.op = "agregar" /\ ultimaLlamada.retorno /\ ultimaLlamada.alertaAntes
  /\ salida = EmptyBag

\* C7: a reading with SOC >= 25 sends nothing and leaves the subscribers alone;
\* it only leaves the flag false.
C7_RecuperacionSinEnvio ==
  [][(PasoLectura /\ ultimoEstado'.soc >= umbralRecuperacion) =>
       /\ salida' = EmptyBag
       /\ suscriptores' = suscriptores
       /\ ~alertaBajaEnviada']_vars

\* C7 witness: a reading reset the flag while there were subscribers
C7_Witness == evento.reseteo /\ suscriptores # {} /\ salida = EmptyBag /\ ~alertaBajaEnviada

\* C8: the subscriber set never holds more than maxSuscriptores chat ids.
C8_LimiteSuscriptores == Cardinality(suscriptores) <= maxSuscriptores

\* C8 witness: a new chat was turned away from a full set
C8_Witness ==
  /\ Cardinality(suscriptores) = maxSuscriptores
  /\ ultimaLlamada.op = "agregar"
  /\ ultimaLlamada.chatId \notin ultimaLlamada.antes
  /\ ~ultimaLlamada.retorno

\* C9: agregarSuscriptor returns true exactly when the id was no member and the
\* set held fewer than 10; then the id is added and nothing else changes;
\* otherwise the set is left as it was.
C9_AgregarRetorno ==
  ultimaLlamada.op = "agregar" =>
    /\ ultimaLlamada.retorno <=>
         (/\ ultimaLlamada.chatId \notin ultimaLlamada.antes
          /\ Cardinality(ultimaLlamada.antes) < maxSuscriptores)
    /\ ultimaLlamada.retorno =>
         suscriptores = ultimaLlamada.antes \cup {ultimaLlamada.chatId}
    /\ ~ultimaLlamada.retorno => suscriptores = ultimaLlamada.antes

\* C9 witness: the 11th distinct id was rejected and the ten members are kept
C9_Witness ==
  /\ ultimaLlamada.op = "agregar"
  /\ ~ultimaLlamada.retorno
  /\ ultimaLlamada.chatId \notin ultimaLlamada.antes
  /\ Cardinality(ultimaLlamada.antes) = maxSuscriptores
  /\ suscriptores = ultimaLlamada.antes

\* C10 as stated: below capacity agregarSuscriptor returns true and the id is a
\* member afterwards.
C10_AgregarSiempreTrue ==
  (ultimaLlamada.op = "agregar" /\ Cardinality(ultimaLlamada.antes) < maxSuscriptores)
    => (ultimaLlamada.retorno /\ ultimaLlamada.chatId \in suscriptores)

\* C10 amended: below capacity the id is a member after agregarSuscriptor, which
\* returns true exactly when the id was not a member before.
C10_AgregarBajoLimite ==
  (ultimaLlamada.op = "agregar" /\ Cardinality(ultimaLlamada.antes) < maxSuscriptores)
    => /\ ultimaLlamada.chatId \in suscriptores
       /\ ultimaLlamada.retorno <=> ultimaLlamada.chatId \notin ultimaLlamada.antes

\* C10 witness: a member subscribed again below capacity and got false
C10_Witness ==
  /\ ultimaLlamada.op = "agregar"
  /\ Cardinality(ultimaLlamada.antes) = maxSuscriptores - 1
  /\ ultimaLlamada.chatId \in ultimaLlamada.antes
  /\ ~ultimaLlamada.retorno
  /\ ultimaLlamada.chatId \in suscriptores

\* C11: eliminarSuscriptor returns true exactly when the id was a member and
\* then removes that id and nothing else; on a non-member it returns false and
\* leaves the set as it was; a second call in a row for the same id returns
\* false and leaves the set the first call left.
C11_EliminarIdempotente ==
  /\ [](ultimaLlamada.op = "eliminar" =>
         /\ ultimaLlamada.retorno <=> ultimaLlamada.chatId \in ultimaLlamada.antes
         /\ suscriptores = ultimaLlamada.antes \ {ultimaLlamada.chatId}
         /\ ~ultimaLlamada.retorno => suscriptores = ultimaLlamada.antes)
  /\ [][(/\ ultimaLlamada.op = "eliminar"
          /\ ultimaLlamada'.op = "eliminar"
          /\ ultimaLlamada'.chatId = ultimaLlamada.chatId) =>
           (~ultimaLlamada'.retorno /\ suscriptores' = suscriptores)]_vars

\* C11 witness: a non-member was removed from a set with members: false, and the
\* members are kept
C11_Witness ==
  /\ ultimaLlamada.op = "eliminar"
  /\ ~ultimaLlamada.retorno
  /\ ultimaLlamada.chatId \notin ultimaLlamada.antes
  /\ Cardinality(suscriptores) >= 2
  /\ suscriptores = ultimaLlamada.antes

\* the step is a bot command of SpecAlertas
PasoComando == ~PasoLectura

\* C12: a bot command leaves alertaBajaEnviada as it was, and what
\* agregarSuscriptor / eliminarSuscriptor return and do to the set is fixed by
\* the set and the id alone, whatever the flag; the handling of a reading
\* leaves the subscribers as they were.
C12_Independencia ==
  /\ [][PasoComando =>
         /\ alertaBajaEnviada' = alertaBajaEnviada
         /\ ultimaLlamada'.antes = suscriptores
         /\ ultimaLlamada'.op = "agregar" =>
              /\ ultimaLlamada'.retorno <=>
                   (/\ ultimaLlamada'.chatId \notin suscriptores
                    /\ Cardinality(suscriptores) < maxSuscriptores)
              /\ suscriptores' = IF ultimaLlamada'.retorno
                                   THEN suscriptores \cup {ultimaLlamada'.chatId}
                                   ELSE suscriptores
         /\ ultimaLlamada'.op = "eliminar" =>
              /\ ultimaLlamada'.retorno <=> ultimaLlamada'.chatId \in suscriptores
              /\ suscriptores' = suscriptores \ {ultimaLlamada'.chatId}]_vars
  /\ [][PasoLectura => suscriptores' = suscriptores]_vars

\* C12 witness: with the alert active a chat unsubscribed, the flag is still
\* set, and readings were handled while there were subscribers
C12_Witness ==
  /\ ultimaLlamada.op = "eliminar" /\ ultimaLlamada.retorno /\ ultimaLlamada.alertaAntes
  /\ alertaBajaEnviada
  /\ suscriptores # {}
  /\ mensajesRecibidos >= 2

\* the step is an iteration of loop()
PasoLoop == iter'.n # iter.n

\* the gate has no baseline
SinBase == lastSOC = SIN_BASE * PuntoSOC

\* C13: an iteration that finds the gate without a baseline (lastSOC = -1, as
\* after every start of the device) decides to publish, whatever the reading.
C13_BaseInicial == [][(PasoLoop /\ SinBase) => iter'.pub]_vars

\* C13 witness: the device published, started again, and the next reading
\* found the gate fresh and was to be published
C13_Witness ==
  /\ iter.n > 0 /\ iter.fresca /\ iter.pub /\ ~iter.enviado
  /\ iter.previo # <<>>
  /\ SinBase

\* C14: with a baseline, an iteration decides to publish exactly when the
\* voltage is at least 0.1 V, or the current at least 0.2 A, or the SOC at
\* least 0.5 points away from the last published reading; against the baseline
\* (24.0 V, 1.0 A, 50 %) the gate is false for (24.05, 1.0, 50) and true for
\* (24.0, 1.25, 50).
C14_PuertaO ==
  /\ [][(PasoLoop /\ ~SinBase) =>
         (iter'.pub <=> \/ Abs(iter'.V - lastV) >= UMBRAL_V
                        \/ Abs(iter'.I - lastI) >= UMBRAL_I
                        \/ 2 * Abs(iter'.SOC - lastSOC) >= PuntoSOC)]_vars
  /\ [](/\ ~cambioSignificativo(50 * PuntoSOC, 24050, 100, 50 * PuntoSOC, 24000, 100)
        /\ cambioSignificativo(50 * PuntoSOC, 24000, 125, 50 * PuntoSOC, 24000, 100))

\* C14 witness: a reading with the voltage and the SOC of the baseline and the
\* current 0.2 A away was to be published (it was not sent, the baseline is
\* still the old one)
C14_Witness ==
  /\ iter.n > 0 /\ ~iter.fresca /\ iter.pub /\ ~iter.enviado
  /\ iter.V = lastV /\ iter.SOC = lastSOC
  /\ Abs(iter.I - lastI) = UMBRAL_I

\* the baseline is the reading of the iteration just made
BaseEsLectura == lastSOC' = iter'.SOC /\ lastV' = iter'.V /\ lastI' = iter'.I

\* C15 as stated: the baseline becomes the reading exactly when the decision
\* is to publish, and is left as it was otherwise.
C15_BaseSiDecision ==
  [][PasoLoop => IF iter'.pub THEN BaseEsLectura ELSE UNCHANGED varsESP]_vars

\* C15 amended: the baseline becomes the reading exactly when the decision is
\* to publish, the client is connected and publish() returns true, and is left
\* as it was otherwise.
C15_BaseSiPublicado ==
  [][PasoLoop =>
       /\ iter'.enviado => (iter'.pub /\ iter'.conectado)
       /\ cola' # cola <=> iter'.enviado
       /\ IF iter'.enviado THEN BaseEsLectura ELSE UNCHANGED varsESP]_vars

\* C15 witness: with the client connected publish() failed for a reading that
\* was to be published, and the baseline is not that reading
C15_Witness ==
  /\ iter.n > 0 /\ ~iter.fresca /\ iter.pub /\ iter.conectado /\ ~iter.enviado
  /\ lastV # iter.V

\* two payloads are a significant change apart: 0.1 V, 0.2 A or 0.5 SOC points
Difieren(m, p) ==
  \/ Abs(m.voltage - p.voltage) * 10 >= UMBRAL_V
  \/ Abs(m.current - p.current) >= UMBRAL_I
  \/ Abs(m.soc - p.soc) * 2 >= UnidadSOC

\* C16 as stated: every message published after the first is a significant
\* change away from the message published before it.
C16_SoloCambios ==
  [][(PasoLoop /\ iter'.enviado /\ iter.previo # <<>>) =>
       Difieren(iter'.previo[1], iter.previo[1])]_vars

\* C16 amended: every message published after the first since the device
\* started is a significant change away from the message published before it.
C16_SoloCambiosDesdeInicio ==
  [][(PasoLoop /\ iter'.enviado /\ iter.previo # <<>> /\ ~SinBase) =>
       Difieren(iter'.previo[1], iter.previo[1])]_vars

\* C16 witness: a reading found a baseline and was published, its message is
\* in flight
C16_Witness ==
  /\ iter.n > 0 /\ iter.enviado /\ ~iter.fresca
  /\ cola = iter.previo

\* C17: calculateSOC_voltage returns a value in [0, 100], 0 for every voltage
\* <= V_MIN_EMPTY and 100 for every voltage >= V_MAX_FULL, and a higher voltage
\* never gets a lower SOC.
C17_SOCAcotado ==
  /\ [](iter.n > 0 =>
         /\ iter.SOC >= 0 /\ iter.SOC <= 100 * PuntoSOC
         /\ iter.V <= V_MIN_EMPTY => iter.SOC = 0
         /\ iter.V >= V_MAX_FULL => iter.SOC = 100 * PuntoSOC)
  /\ [][(iter.n > 0 /\ PasoLoop /\ iter.V <= iter'.V) => iter.SOC <= iter'.SOC]_vars

\* C17 witness: a voltage above V_MAX_FULL got 100
C17_Witness == iter.n > 0 /\ iter.V > V_MAX_FULL /\ iter.SOC = 100 * PuntoSOC

\* the sides of the deadband of the mode, in centiamperes
BandaMin == -10
BandaMax == 10

\* the mode the claim gives to a current
ModoDe(corriente) ==
  IF corriente < BandaMin THEN "Cargando"
  ELSE IF corriente > BandaMax THEN "Descargando"
  ELSE "Reposo"

\* C18: the backend and the dashboard give every current one mode: Cargando
\* iff current < -0.1, Descargando iff current > 0.1, Reposo otherwise, so
\* also at -0.1 and 0.1; both give the same mode to the same current.
C18_ParticionModo ==
  /\ ultimoEstado.timestamp > 0 =>
       /\ ultimoEstado.estado = ModoDe(ultimoEstado.current)
       /\ ultimoEstado.estado \in {"Cargando", "Descargando", "Reposo"}
  /\ currentState.text = ModoDe(current)
  /\ (ultimoEstado.timestamp > 0 /\ current = ultimoEstado.current)
       => currentState.text = ultimoEstado.estado

\* C18 witness: the backend holds a reading of 0.1 A and the dashboard one of
\* -0.1 A, both Reposo
C18_Witness ==
  /\ ultimoEstado.timestamp > 0 /\ ultimoEstado.current = BandaMax
  /\ ultimoEstado.estado = "Reposo"
  /\ batteryData # <<>> /\ current = BandaMin /\ currentState.text = "Reposo"

\* the estimate is the not-applicable value -1
NoAplica(t) == t.num = -t.den

\* -1 hours on the wire
SinTiempo == horasEnviadas([num |-> -1, den |-> 1])

\* the estimate is a finite number >= 0
FinitoNoNegativo(t) == t.den > 0 /\ t.num >= 0

\* C19: time-to-full is -1 exactly when current >= 0 and a finite number >= 0
\* when current < 0; time-to-empty is -1 exactly when current <= 0 and a finite
\* number >= 0 when current > 0; never both applicable, both -1 at current 0;
\* the payload carries -1.0 in the same cases.
C19_TiemposPorSigno ==
  iter.n > 0 =>
    /\ NoAplica(iter.t_full) <=> iter.I >= 0
    /\ iter.I < 0 => FinitoNoNegativo(iter.t_full)
    /\ NoAplica(iter.t_empty) <=> iter.I <= 0
    /\ iter.I > 0 => FinitoNoNegativo(iter.t_empty)
    /\ NoAplica(iter.t_full) \/ NoAplica(iter.t_empty)
    /\ iter.I = 0 => (NoAplica(iter.t_full) /\ NoAplica(iter.t_empty))
    /\ horasEnviadas(iter.t_full) = SinTiempo <=> iter.I >= 0
    /\ horasEnviadas(iter.t_empty) = SinTiempo <=> iter.I <= 0

\* C19 witness: a charging current inside the deadband, with the battery full,
\* got a time-to-full of 0 hours and no time-to-empty
C19_Witness ==
  /\ iter.n > 0 /\ iter.I = -5 /\ iter.SOC = 100 * PuntoSOC
  /\ iter.t_full.num = 0 /\ NoAplica(iter.t_empty)

\* C20: in the state the backend keeps of a reading, time_to_full is -1
\* unless the mode is Cargando and time_to_empty is -1 unless the mode is
\* Descargando; for a reading in Reposo both are -1.
C20_TiemposPorModo ==
  ultimoEstado.timestamp > 0 =>
    /\ ultimoEstado.estado # "Cargando" => ultimoEstado.time_to_full = SinTiempo
    /\ ultimoEstado.estado # "Descargando" => ultimoEstado.time_to_empty = SinTiempo


(***************************************************************************)
(* The formulas of the estimator.                                          *)
(***************************************************************************)
RECURSIVE MCD(_, _)
MCD(a, b) == IF b = 0 THEN a ELSE MCD(b, a % b)

\* the fraction f in lowest terms
Reducida(f) ==
  LET d == MCD(Abs(f.num), Abs(f.den))
  IN [num |-> f.num \div d, den |-> f.den \div d]

\* clamp(100*(V - 20.8)/(26.5 - 20.8), 0, 100), V in millivolts
FormulaSOC(V) ==
  LET num == 100 * (V - 20800)
      den == 26500 - 20800
  IN IF num < 0 THEN [num |-> 0, den |-> 1]
     ELSE IF num > 100 * den THEN [num |-> 100, den |-> 1]
     ELSE Reducida([num |-> num, den |-> den])

\* (100*(100 - soc)/100) / (|I|*0.95), I in centiamperes
FormulaCarga(V, I) ==
  LET s == FormulaSOC(V)
  IN Reducida([num |-> (100 * s.den - s.num) * 10000, den |-> s.den * Abs(I) * 95])

\* (100*soc/100) / I, I in centiamperes
FormulaDescarga(V, I) ==
  LET s == FormulaSOC(V)
  IN Reducida([num |-> s.num * 100, den |-> s.den * I])

\* C21: every iteration computes soc = clamp(100*(V - vMin)/(vMax - vMin), 0,
\* 100), with a negative current time-to-full = (100*(100 - soc)/100) /
\* (|I|*0.95), with a positive current time-to-empty = (100*soc/100) / I; for
\* 25.2 V and 2.5 A the SOC rounds to 77.19, the mode is Descargando, the
\* time-to-empty rounds to 30.88 h and the time-to-full is not applicable
C21_Formulas ==
  iter.n > 0 =>
    /\ Reducida([num |-> iter.SOC, den |-> PuntoSOC]) = FormulaSOC(iter.V)
    /\ iter.I < 0 => Reducida(iter.t_full) = FormulaCarga(iter.V, iter.I)
    /\ iter.I > 0 => Reducida(iter.t_empty) = FormulaDescarga(iter.V, iter.I)
    /\ (iter.V = 25200 /\ iter.I = 250) =>
         /\ Redondear(iter.SOC * 100, PuntoSOC) = 7719
         /\ determinarEstado(iter.I) = "Descargando"
         /\ Redondear(iter.t_empty.num * 100, iter.t_empty.den) = 3088
         /\ NoAplica(iter.t_full)

\* the iteration of the worked example: 25.2 V, 2.5 A
C21_Witness == iter.n > 0 /\ iter.V = 25200 /\ iter.I = 250

C30_ConfirmadoEsMiembro ==
  \A e \in BagToSet(salida) :
    e.texto \in {"Alertas activadas", "menu: Alertas automaticas activas"}
      => e.chat \in suscriptores

(***************************************************************************)
(* The backend: payloads, queries, start.                                  *)
(***************************************************************************)
\* a step in which procesarMensaje has been handed a payload
PasoRecepcion == recibido'.n # recibido.n

\* a step in which a query of the last state has been answered
PasoConsulta == consulta'.n # consulta.n

\* C23: a sample without the voltage or without the current leaves
\* ultimoEstado and the flag of the alert as they were, reaches no listener of
\* nuevosDatos and sends no alert
C23_IncompletoDescartado ==
  [][(PasoRecepcion /\ recibido'.mensaje \in MensajesIncompletos)
       => /\ UNCHANGED <<ultimoEstado, alertaBajaEnviada, evento>>
          /\ salida' = EmptyBag]_vars

\* the time fields of the messages and of the last state
CamposTiempo == {"time_to_full", "time_to_empty"}

\* whether the JSON object m carries -1.0 in its field c
EsCentinela(m, c) == c \in DOMAIN m /\ m[c] = -10

\* C24: the device writes -1.0 for exactly the estimates that are not
\* applicable; after a message has been processed ultimoEstado has -1 in
\* exactly the time fields that are -1 in the message, and so has the answer of
\* GET /api/estado
C24_CentinelaConservado ==
  /\ [](\A V \in VoltajesEstados, I \in CorrientesEstimador :
          LET SOC == calculateSOC_voltage(V)
              m == json(SOC, V, I)
          IN /\ m.time_to_full = -10 <=> NoAplica(estimateTimeToFull_hours(I, SOC))
             /\ m.time_to_empty = -10 <=> NoAplica(estimateTimeToEmpty_hours(I, SOC)))
  /\ []((recibido.n > 0 /\ recibido.mensaje \notin MensajesRotos) =>
          \A c \in CamposTiempo :
            ultimoEstado[c] = -10 <=> EsCentinela(recibido.mensaje, c))
  /\ [][(PasoConsulta /\ consulta'.origen = "api" /\ recibido.n > 0
           /\ recibido.mensaje \notin MensajesRotos)
          => \A c \in CamposTiempo :
               consulta'.estado[c] = -10 <=> EsCentinela(recibido.mensaje, c)]_vars

\* GET /api/estado has answered with -1 as time to full and a finite time to
\* empty
C24_Witness ==
  /\ consulta.origen = "api"
  /\ consulta.estado.time_to_full = -10
  /\ consulta.estado.time_to_empty > 0

\* the value of the field c of the JSON object m, 0 when it is missing
Valor(m, c) == IF c \in DOMAIN m THEN m[c] ELSE 0

\* every field of the state e comes from the message m, the k-th parsed
DeUnMensaje(e, m, k) ==
  /\ e.voltage = Valor(m, "voltage")
  /\ e.current = Valor(m, "current")
  /\ e.soc = Valor(m, "soc")
  /\ e.time_to_full = Valor(m, "time_to_full")
  /\ e.time_to_empty = Valor(m, "time_to_empty")
  /\ e.estado = ModoDe(Valor(m, "current"))
  /\ e.timestamp = k

\* C25: what a query of the last state returns is the initial state or has
\* all its fields from one and the same message
C25_InstantaneaCoherente ==
  consulta.n > 0 =>
    \/ consulta.estado = [voltage |-> 0, current |-> 0, soc |-> 0, time_to_full |-> 0,
                          time_to_empty |-> 0, timestamp |-> 0,
                          estado |-> "Desconocido"]
    \/ \E m \in MensajesServidor \cup MensajesIncompletos, k \in 1..MaxMensajes :
         DeUnMensaje(consulta.estado, m, k)

\* the /estado command has been answered after the second message, and a
\* third message has arrived since
C25_Witness ==
  /\ consulta.origen = "bot"
  /\ consulta.estado.timestamp = 2
  /\ ultimoEstado.timestamp = 3

\* C26: the alert handler has evaluated as many samples as the backend has
\* parsed, and the last one evaluated is the last one parsed
C26_EnOrden ==
  /\ evento.n = mensajesRecibidos
  /\ evento.n > 0 => evento.soc = ultimoEstado.soc

\* C27: at most one MQTT client created by conectar() exists
C27_UnSoloCliente == Len(clientes) <= 1

\* C29: a payload that is not JSON changes neither ultimoEstado nor
\* mensajesRecibidos, reaches no listener and sends nothing; a payload of the
\* device is counted, stored and evaluated, also after one that is not JSON
C29_NoJSONSinEfecto ==
  [][PasoRecepcion =>
       /\ recibido'.mensaje \in MensajesRotos
             => /\ UNCHANGED <<ultimoEstado, mensajesRecibidos, suscriptores,
                               alertaBajaEnviada, evento>>
                /\ salida' = EmptyBag
       /\ recibido'.mensaje \in MensajesServidor
             => /\ mensajesRecibidos' = mensajesRecibidos + 1
                /\ DeUnMensaje(ultimoEstado', recibido'.mensaje, mensajesRecibidos')
                /\ evento'.n = evento.n + 1
                /\ evento'.soc = recibido'.mensaje.soc]_vars

\* a payload of the device has been processed after one that is not JSON
C29_Witness ==
  /\ recibido.huboRoto
  /\ recibido.mensaje \in MensajesServidor
  /\ ultimoEstado.soc = recibido.mensaje.soc
  /\ ultimoEstado.timestamp = mensajesRecibidos

(***************************************************************************)
(* The empty episode, the baseline and the divergence of the gate.         *)
(***************************************************************************)
\* C34: a reading below 20 that finds the flag false and no subscriber sends
\* nothing and sets the flag; while the flag is set a reading below 25 sends
\* nothing and leaves it set, and no bot command changes it
C34_EpisodioSinDestinatario ==
  /\ [][(PasoLectura /\ suscriptores = {} /\ ~alertaBajaEnviada
           /\ ultimoEstado'.soc < umbralBaja)
          => (salida' = EmptyBag /\ alertaBajaEnviada')]_vars
  /\ [][(PasoLectura /\ alertaBajaEnviada /\ ultimoEstado'.soc < umbralRecuperacion)
          => (salida' = EmptyBag /\ alertaBajaEnviada')]_vars
  /\ [][~PasoLectura => alertaBajaEnviada' = alertaBajaEnviada]_vars

\* the alert has just fired with nobody subscribed
C34_Witness ==
  /\ evento.invocada /\ ~evento.antes
  /\ suscriptores = {}
  /\ salida = EmptyBag
  /\ alertaBajaEnviada

\* C35: lastSOC, lastV and lastI are the reading of the last iteration whose
\* publish returned true, or -1 when there is none since the start; an
\* iteration that decides to publish and does not send leaves them and the
\* messages in flight alone, and what an iteration sends is its own reading
C35_BaseUltimaPublicada ==
  /\ [](IF iter.publicada = <<>>
          THEN lastSOC = -1 * PuntoSOC /\ lastV = -1000 /\ lastI = -100
          ELSE <<lastSOC, lastV, lastI>> = iter.publicada)
  /\ [][(PasoLoop /\ iter'.pub /\ ~iter'.enviado)
          => (UNCHANGED varsESP /\ cola' = cola)]_vars
  /\ [][(PasoLoop /\ cola' # cola)
          => cola' = Append(cola, json(iter'.SOC, iter'.V, iter'.I))]_vars

\* an iteration decided to publish another reading than the last published
\* one and did not send it
C35_Witness ==
  /\ iter.n > 0 /\ iter.pub /\ ~iter.enviado
  /\ iter.publicada # <<>>
  /\ iter.publicada # <<iter.SOC, iter.V, iter.I>>

\* C36: after an iteration with the client connected and no failed publish the
\* reading is within 0.1 V, 0.2 A and 0.5 points of the last published values
C36_DivergenciaAcotada ==
  [][(PasoLoop /\ iter'.conectado /\ (iter'.pub => iter'.enviado))
       => /\ Abs(iter'.V - lastV') < 100
          /\ Abs(iter'.I - lastI') < 20
          /\ 2 * Abs(iter'.SOC - lastSOC') < PuntoSOC]_vars

\* a connected iteration kept a reading that differs from the last published
\* one to itself
C36_Witness ==
  /\ iter.n > 0 /\ iter.conectado /\ ~iter.pub
  /\ iter.V # lastV

(***************************************************************************)
(* The connection of the backend.                                          *)
(***************************************************************************)
\* C31: estaConectado() is true exactly when a client created by conectar()
\* is connected to the broker
C31_ConectadoSiHayConexion ==
  estaConectado <=> \E i \in DOMAIN clientes : clientes[i] = "conectado"

\* C32: once the backend is connected, it stays connected for as long as the
\* broker stays reachable
C32_SigueConectado ==
  [][(conectado /\ alcanzable /\ alcanzable') => conectado']_vars

(***************************************************************************)
(* The simulation.                                                         *)
(***************************************************************************)
\* C38: whatever the noise, a charging phase is followed by a discharging
\* phase and a discharging phase by a charging phase
C38_AlternaSiempre ==
  /\ simulationCharging ~> ~simulationCharging
  /\ ~simulationCharging ~> simulationCharging

\* the simulation has gone through a discharge and a charge and is
\* discharging again: the current is still the last one of the charge
C38_Witness == ~simulationCharging /\ simulatedCurrent < 0

\* C39: the simulated voltage stays between 23 V and 26 V
C39_VoltajeEnRango == 23000 <= simulatedVoltage /\ simulatedVoltage <= 26000

(***************************************************************************)
(* The termination of loop().                                              *)
(***************************************************************************)
\* C37: every iteration of loop() ends; setup_wifi() makes at most 20
\* attempts and reconnectMQTT() at most 3; an iteration that is left without
\* connection still estimates its reading and ends without publishing
C37_IteracionTermina ==
  /\ pc # "inicio" ~> pc = "inicio"
  /\ [](attemptsWifi <= 20 /\ attemptsMQTT <= 3)
  /\ [][(pc = "medir" /\ pc' = "inicio" /\ ~mqttConnected)
          => /\ PasoLoop
             /\ iter'.SOC = iter'.V - 20800
             /\ ~iter'.enviado
             /\ cola' = cola /\ UNCHANGED varsESP]_vars

\* an iteration has ended after 20 attempts for the WiFi and 3 for the broker
C37_Witness ==
  /\ pc = "inicio" /\ iter.n > 0
  /\ attemptsWifi = 20 /\ attemptsMQTT = 3
  /\ ~wifiStatus /\ ~mqttConnected
  /\ ~iter.enviado

(***************************************************************************)
(* The initial state of the dashboard.                                     *)
(***************************************************************************)
\* obtenerEstadoInicial() finishes
PasoEstadoInicial == peticion = "respondida" /\ peticion' = "terminada"

\* C33: the value that obtenerEstadoInicial() emits never follows one
\* delivered by MQTT, and obtenerEstadoInicial() never replaces the status
\* 'En línea'
C33_EstadoInicialPrimero ==
  [][PasoEstadoInicial
      => /\ (respuesta.ok /\ datosValidos(respuesta.data)) => lastUpdate[1] # "now"
         /\ connectionStatus = "En línea" => connectionStatus' = "En línea"]_vars

=============================================================================
